---- MODULE Spec2Model ----
(***************************************************************************)
(* EffectPlanner (src/app.py): the scheduling / placement engine, the      *)
(* event store with its whole-file persistence, and the calendar           *)
(* arithmetic.                                                             *)
(*                                                                         *)
(* Time.  A dt.datetime is the number of minutes since 00:00 of day 0      *)
(* (every datetime the program builds has second = microsecond = 0), a     *)
(* dt.date of the event store is its day number, a dt.time is its minute   *)
(* of the day, a dt.timedelta is a number of minutes.                      *)
(*                                                                         *)
(* Strings.  The ISO strings the records hold are modelled by their        *)
(* fields: [fmt, date, hh, mm], fmt being "datetime" (YYYY-MM-DDTHH:MM:SS),*)
(* "date" (YYYY-MM-DD), "absent" (the key is missing) or "malformed".      *)
(***************************************************************************)
EXTENDS Integers, Sequences, FiniteSets

VARIABLES
    events,             \* st.session_state.events, per session
    started,            \* whether the session ran its initialisation
    file,               \* the content of DATA_FILE (events.json)
    selected_event_id,  \* st.session_state.selected_event_id, per session
    nextId,             \* the number of ids uuid4 has handed out
    persisted,          \* the ids of the records DATA_FILE has ever held
    page,               \* st.session_state.page, per session
    view,               \* st.session_state.view, per session
    selected_date,      \* st.session_state.selected_date, per session
    anchor_date,        \* st.session_state.anchor_date, per session
    feedback,           \* st.session_state.feedback, per session
    feedback_rating,    \* st.session_state.feedback_rating, per session
    feedback_file,      \* the content of FEEDBACK_FILE (feedback.json)
    last,               \* the handler that ran last, with its inputs
    call,               \* a call of a pure function: its name and arguments
    ret                 \* what that call returned (NoRet before it returns)

vars ==
    <<events, started, file, selected_event_id, nextId, persisted, page, view,
      selected_date, anchor_date, feedback, feedback_rating, feedback_file, last,
      call, ret>>

----------------------------------------------------------------------------
(* Values *)

None == -1

NoRet == [path |-> "pending"]

NoCall == [fn |-> "none"]

MinutesPerDay == 24 * 60

\* dt.time(23, 59), as a minute of the day
DayEndMinute == 23 * 60 + 59

\* for _ in range(200)
CapRounds == 200

\* dt.timedelta(minutes=30)
BumpMinutes == 30

Max2(a, b) == IF a >= b THEN a ELSE b

Min2(a, b) == IF a <= b THEN a ELSE b

\* dt.datetime.combine(day, time)
Combine(day, minute) == day * MinutesPerDay + minute

\* datetime.date()
DateOf(d) == d \div MinutesPerDay

\* datetime.isoformat(): "YYYY-MM-DDTHH:MM:SS"
IsoDateTime(d) ==
    [fmt |-> "datetime", date |-> d \div MinutesPerDay,
     hh |-> (d % MinutesPerDay) \div 60, mm |-> d % 60]

\* iso_date(d): "YYYY-MM-DD"
iso_date(day) == [fmt |-> "date", date |-> day, hh |-> 0, mm |-> 0]

\* ev.get(key, ""): the key is missing
Absent == [fmt |-> "absent", date |-> 0, hh |-> 0, mm |-> 0]

\* a string that is no ISO date or datetime
Malformed == [fmt |-> "malformed", date |-> 0, hh |-> 0, mm |-> 0]

\* _parse_iso_dt: None unless the string holds a "T" and parses
_parse_iso_dt(s) ==
    IF s.fmt = "datetime"
    THEN s.date * MinutesPerDay + s.hh * 60 + s.mm
    ELSE None

\* A record of the store
Rec(id, kind, allDay, start, end, tags, mode, done) ==
    [id |-> id, kind |-> kind, allDay |-> allDay, start |-> start,
     end |-> end, tags |-> tags, scheduling_mode |-> mode, done |-> done]

----------------------------------------------------------------------------
(* Overlap-avoidance for AI scheduling *)

\* BusyKeeps without `if e <= s: continue`
BusyKeepsNoLengthCheck(ev, day) ==
    /\ ev.kind = "event"
    /\ ~ev.allDay
    /\ _parse_iso_dt(ev.start) # None
    /\ _parse_iso_dt(ev.end) # None
    /\ DateOf(_parse_iso_dt(ev.start)) = day

\* Whether _busy_intervals_for_date keeps the record: none of its `continue`s
\* is taken
BusyKeeps(ev, day) ==
    /\ ev.kind = "event"
    /\ ~ev.allDay
    /\ _parse_iso_dt(ev.start) # None
    /\ _parse_iso_dt(ev.end) # None
    /\ DateOf(_parse_iso_dt(ev.start)) = day
    /\ ~(_parse_iso_dt(ev.end) <= _parse_iso_dt(ev.start))

\* intervals.append((s, e)) for the records kept, in the store's order
BusyCollect(evs, day) ==
    LET Keep(ev) == BusyKeeps(ev, day)
        kept == SelectSeq(evs, Keep)
    IN  [i \in 1..Len(kept) |->
            <<_parse_iso_dt(kept[i].start), _parse_iso_dt(kept[i].end)>>]

\* The stable merge of two sequences sorted by start: of two elements with the
\* same start, the one of `a` comes first
RECURSIVE MergeByStart(_, _)
MergeByStart(a, b) ==
    IF a = <<>> THEN b
    ELSE IF b = <<>> THEN a
    ELSE LET m == (Len(a) + 1) \div 2
             k == Cardinality({j \in 1..Len(b) : b[j][1] < a[m][1]})
         IN  MergeByStart(SubSeq(a, 1, m - 1), SubSeq(b, 1, k))
             \o <<a[m]>>
             \o MergeByStart(SubSeq(a, m + 1, Len(a)), SubSeq(b, k + 1, Len(b)))

\* intervals.sort(key=lambda x: x[0]): stable, ascending by start
RECURSIVE SortByStart(_)
SortByStart(seq) ==
    IF Len(seq) <= 1 THEN seq
    ELSE LET m == Len(seq) \div 2
         IN  MergeByStart(SortByStart(SubSeq(seq, 1, m)),
                          SortByStart(SubSeq(seq, m + 1, Len(seq))))

_busy_intervals_for_date(evs, day) == SortByStart(BusyCollect(evs, day))

\* _overlaps with <= and >=: intervals that only touch count as overlapping
OverlapsClosed(a_start, a_end, b_start, b_end) ==
    a_start <= b_end /\ a_end >= b_start

_overlaps(a_start, a_end, b_start, b_end) ==
    a_start < b_end /\ a_end > b_start

\* The inner for loop over intervals[lo..hi], with its break: the index of the
\* first interval that overlaps [start, end), 0 when none does
RECURSIVE FirstConflict(_, _, _, _, _)
FirstConflict(intervals, start, end, lo, hi) ==
    IF lo > hi THEN 0
    ELSE IF lo = hi
    THEN IF _overlaps(start, end, intervals[lo][1], intervals[lo][2]) THEN lo ELSE 0
    ELSE LET mid == (lo + hi) \div 2
             first == FirstConflict(intervals, start, end, lo, mid)
         IN  IF first # 0 THEN first
             ELSE FirstConflict(intervals, start, end, mid + 1, hi)

\* Advance with end computed before start is clamped
AdvanceStaleEnd(conflict_end, latest_start, duration) ==
    LET start == IF conflict_end > latest_start THEN latest_start ELSE conflict_end
    IN  [start |-> start, end |-> conflict_end + duration]

\* Advance without `if start > latest_start: start = latest_start`
AdvanceNoClamp(conflict_end, latest_start, duration) ==
    [start |-> conflict_end, end |-> conflict_end + duration]

\* Advance to one minute before the end of the conflicting interval
AdvanceShort(conflict_end, latest_start, duration) ==
    LET start == IF conflict_end - 1 > latest_start THEN latest_start
                 ELSE conflict_end - 1
    IN  [start |-> start, end |-> start + duration]

\* start = conflict[1], clamped to latest_start; end = start + duration
Advance(conflict_end, latest_start, duration) ==
    LET start == IF conflict_end > latest_start THEN latest_start ELSE conflict_end
    IN  [start |-> start, end |-> start + duration]

\* One round of the outer for loop.  st is the loop's state: start, end, the
\* return statement taken so far (path, "running" while none was) and the number
\* of jumps made.
SlotRound(intervals, duration, latest_start, st) ==
    IF st.path # "running" THEN st
    ELSE LET c == FirstConflict(intervals, st.start, st.end, 1, Len(intervals))
         IN  IF c = 0
             THEN [st EXCEPT !.path = "free"]
             ELSE LET a == Advance(intervals[c][2], latest_start, duration)
                  IN  [start |-> a.start, end |-> a.end,
                       path |-> IF a.start = latest_start THEN "latest" ELSE "running",
                       rounds |-> st.rounds + 1]

\* SlotRounds that returns after its first round
SlotRoundsOnce(intervals, duration, latest_start, st, n) ==
    LET once == SlotRound(intervals, duration, latest_start, st)
    IN  IF once.path = "running" THEN [once EXCEPT !.path = "free"] ELSE once

\* n >= 1 rounds of the outer for loop, from state st
RECURSIVE SlotRounds(_, _, _, _, _)
SlotRounds(intervals, duration, latest_start, st, n) ==
    IF st.path # "running" THEN st
    ELSE IF n = 1 THEN SlotRound(intervals, duration, latest_start, st)
    ELSE SlotRounds(intervals, duration, latest_start,
                    SlotRounds(intervals, duration, latest_start, st, n \div 2),
                    n - (n \div 2))

\* latest_start = day_end - duration, not before day_start
LatestStart(day, duration) ==
    LET day_start == Combine(day, 0)
        day_end == Combine(day, DayEndMinute)
    IN  IF day_end - duration < day_start THEN day_start ELSE day_end - duration

\* ClampStart without `if start > latest_start: start = latest_start`
ClampStartNoUpper(day, proposed_start, duration) ==
    Max2(Combine(day, 0), proposed_start)

\* start = max(day_start, proposed_start), not after latest_start
ClampStart(day, proposed_start, duration) ==
    LET start == Max2(Combine(day, 0), proposed_start)
    IN  IF start > LatestStart(day, duration)
        THEN LatestStart(day, duration)
        ELSE start

find_next_free_slot(evs, day, proposed_start, duration_min) ==
    LET duration == duration_min
        latest_start == LatestStart(day, duration)
        start == ClampStart(day, proposed_start, duration)
        end == start + duration
        intervals == _busy_intervals_for_date(evs, day)
        st == SlotRounds(intervals, duration, latest_start,
                         [start |-> start, end |-> end, path |-> "running",
                          rounds |-> 0],
                         CapRounds)
    IN  IF intervals = <<>>
        THEN [start |-> start, end |-> end, path |-> "empty", rounds |-> 0]
        ELSE IF st.path = "running" THEN [st EXCEPT !.path = "cap"] ELSE st

----------------------------------------------------------------------------
(* Date helpers.  Here a dt.date is [year, month, day]. *)

Date(y, m, d) == [year |-> y, month |-> m, day |-> d]

\* The datetime module's leap years
IsLeap(y) == y % 4 = 0 /\ (y % 100 # 0 \/ y % 400 = 0)

\* The datetime module's days of a month
DaysInMonth(y, m) ==
    IF m = 2 /\ IsLeap(y) THEN 29
    ELSE <<31, 28, 31, 30, 31, 30, 31, 31, 30, 31, 30, 31>>[m]

\* date - dt.timedelta(days=1)
DateMinusOneDay(date) ==
    IF date.day > 1 THEN Date(date.year, date.month, date.day - 1)
    ELSE IF date.month > 1
         THEN Date(date.year, date.month - 1, DaysInMonth(date.year, date.month - 1))
         ELSE Date(date.year - 1, 12, 31)

\* last_day_of_month that takes February to have 28 days in every year
LastDayNoLeap(y, m) ==
    Date(y, m, <<31, 28, 31, 30, 31, 30, 31, 31, 30, 31, 30, 31>>[m])

last_day_of_month(y, m) ==
    IF m = 12 THEN Date(y, 12, 31)
    ELSE DateMinusOneDay(Date(y, m + 1, 1))

\* while m > 12: y += 1; m -= 12
RECURSIVE CarryUp(_, _)
CarryUp(y, m) == IF m > 12 THEN CarryUp(y + 1, m - 12) ELSE <<y, m>>

\* while m < 1: y -= 1; m += 12
RECURSIVE CarryDown(_, _)
CarryDown(y, m) == IF m < 1 THEN CarryDown(y - 1, m + 12) ELSE <<y, m>>

add_months(anchor, delta_months) ==
    LET up == CarryUp(anchor.year, anchor.month + delta_months)
        ym == CarryDown(up[1], up[2])
        ld == last_day_of_month(ym[1], ym[2])
        d == Min2(anchor.day, ld.day)
    IN  Date(ym[1], ym[2], d)

----------------------------------------------------------------------------
(* Tags and AI time helpers *)

RESEARCH_TAGS ==
    << "Sleep (Timing & Health)",
       "Meal/Eating Timing (Chrononutrition)",
       "Exercise (Time-of-Day Effects)",
       "Light Exposure (Timing & Circadian Regulation)" >>

TAG_OPTIONS ==
    << "Work", "School", "Family", "Fitness", "Health", "Finance", "Travel",
       "Personal" >> \o RESEARCH_TAGS

\* RESEARCH_PAPERS[tag]["default_start"], as a minute of the day
PaperDefaultStart(tag) ==
    CASE tag = "Sleep (Timing & Health)" -> 22 * 60
      [] tag = "Meal/Eating Timing (Chrononutrition)" -> 18 * 60
      [] tag = "Exercise (Time-of-Day Effects)" -> 16 * 60 + 30
      [] tag = "Light Exposure (Timing & Circadian Regulation)" -> 8 * 60

\* RESEARCH_PAPERS[tag]["base_tag"]
PaperBaseTag(tag) ==
    IF tag = "Exercise (Time-of-Day Effects)" THEN "Fitness" ELSE "Health"

\* _time_from_minutes: the minute of the day, kept within 00:00..23:59
_time_from_minutes(m) == Max2(0, Min2(23 * 60 + 59, m))

suggest_research_time(tag) ==
    CASE tag = "School" -> 17 * 60
      [] tag = "Work" -> 16 * 60
      [] tag = "Family" -> 18 * 60 + 30
      [] tag = "Fitness" -> 16 * 60 + 30
      [] tag = "Health" -> 20 * 60
      [] tag = "Finance" -> 19 * 60
      [] tag = "Travel" -> 10 * 60
      [] tag = "Personal" -> 20 * 60 + 30
      [] OTHER -> 17 * 60

\* Whether x is an element of the sequence
InSeq(x, seq) == \E i \in 1..Len(seq) : seq[i] = x

\* The hh * 60 + mm of the records the loop of suggest_best_time_from_history
\* appends to mins, in the store's order
HistoryMins(evs, tag) ==
    LET Counts(ev) ==
            /\ ev.kind = "event"
            /\ InSeq(tag, ev.tags)
            /\ ev.start.fmt = "datetime"
        kept == SelectSeq(evs, Counts)
    IN  [i \in 1..Len(kept) |-> kept[i].start.hh * 60 + kept[i].start.mm]

RECURSIVE SumSeq(_)
SumSeq(seq) == IF seq = <<>> THEN 0 ELSE seq[1] + SumSeq(Tail(seq))

\* int(sum(mins) / len(mins)) of non-negative numbers is the floor of the mean
suggest_best_time_from_history(evs, tag) ==
    LET mins == HistoryMins(evs, tag)
    IN  IF mins = <<>> THEN suggest_research_time(tag)
        ELSE _time_from_minutes(SumSeq(mins) \div Len(mins))

\* The texts typed into the Start and End fields, with what strptime makes of
\* them: a minute of the day, or None when no format matches
ClockTexts ==
    [t \in {"9:00 AM", "10:00 AM", "11:45 PM", "garbage"} |->
        CASE t = "9:00 AM" -> 9 * 60
          [] t = "10:00 AM" -> 10 * 60
          [] t = "11:45 PM" -> 23 * 60 + 45
          [] OTHER -> None]

_parse_time_12h(text, fallback) ==
    IF ClockTexts[text] = None THEN fallback ELSE ClockTexts[text]

----------------------------------------------------------------------------
(* Storage and session state *)

Sessions == {1, 2}

\* An empty feedback dict
NoFeedback == [k \in {} |-> 0]

\* FEEDBACK_FILE does not exist
NoFeedbackFile == [exists |-> FALSE, data |-> NoFeedback]

\* _load_feedback: {} when the file is missing
_load_feedback(f) == IF f.exists THEN f.data ELSE NoFeedback

_save_feedback(fb) == [exists |-> TRUE, data |-> fb]

\* DATA_FILE does not exist
NoFile == [exists |-> FALSE, data |-> <<>>]

\* _load_events: [] when the file is missing
_load_events(f) == IF f.exists THEN f.data ELSE <<>>

\* _save_events that writes the list without its last record
SaveWithoutLast(evs) ==
    [exists |-> TRUE,
     data |-> IF evs = <<>> THEN <<>> ELSE SubSeq(evs, 1, Len(evs) - 1)]

\* _save_events: the file holds the whole list, and nothing else
_save_events(evs) == [exists |-> TRUE, data |-> evs]

IdsOf(evs) == {evs[i].id : i \in 1..Len(evs)}

NoOp == [op |-> "none", session |-> 0, id |-> 0, sdt |-> 0, edt |-> 0]

Op(name, s, id, sdt, edt) ==
    [op |-> name, session |-> s, id |-> id, sdt |-> sdt, edt |-> edt]

AppIdle ==
    /\ events = [s \in Sessions |-> <<>>]
    /\ started = [s \in Sessions |-> FALSE]
    /\ file = NoFile
    /\ selected_event_id = [s \in Sessions |-> None]
    /\ nextId = 0
    /\ persisted = {}
    /\ page = [s \in Sessions |-> "Calendar"]
    /\ view = [s \in Sessions |-> "month"]
    /\ selected_date = [s \in Sessions |-> Absent]
    /\ anchor_date = [s \in Sessions |-> Absent]
    /\ feedback = [s \in Sessions |-> NoFeedback]
    /\ feedback_rating = [s \in Sessions |-> None]
    /\ feedback_file = NoFeedbackFile
    /\ last = NoOp

NavUnchanged == UNCHANGED <<page, view, selected_date, anchor_date>>

FeedbackUnchanged == UNCHANGED <<feedback, feedback_rating, feedback_file>>

AppUnchanged ==
    /\ UNCHANGED <<events, started, file, selected_event_id, nextId, persisted, last>>
    /\ NavUnchanged
    /\ FeedbackUnchanged

\* The dates dt.date.today() gives
ClockDays == {0}

\* The script's first run in a session: st.session_state.events = _load_events()
SessionStart(s) ==
    /\ ~started[s]
    /\ started' = [started EXCEPT ![s] = TRUE]
    /\ events' = [events EXCEPT ![s] = _load_events(file)]
    /\ selected_event_id' = [selected_event_id EXCEPT ![s] = None]
    /\ feedback' = [feedback EXCEPT ![s] = _load_feedback(feedback_file)]
    /\ \E today \in ClockDays :
          /\ selected_date' = [selected_date EXCEPT ![s] = iso_date(today)]
          /\ anchor_date' = [anchor_date EXCEPT ![s] = iso_date(today)]
    /\ last' = Op("start", s, 0, 0, 0)
    /\ UNCHANGED <<file, nextId, persisted, page, view, feedback_rating,
                   feedback_file, call, ret>>

\* st.session_state.events becomes evs and is saved in full
Persist(s, evs) ==
    /\ events' = [events EXCEPT ![s] = evs]
    /\ file' = _save_events(evs)
    /\ persisted' = persisted \cup IdsOf(_save_events(evs).data)

\* st.session_state.events.append(new_ev); _save_events(...)
AppendAndSave(s, new_ev) ==
    /\ Persist(s, Append(events[s], new_ev))
    /\ nextId' = nextId + 1
    /\ UNCHANGED <<started, selected_event_id, call, ret>>
    /\ NavUnchanged
    /\ FeedbackUnchanged

----------------------------------------------------------------------------
(* Create Event, Create Task *)

\* What the forms are filled with
Days == {0, 1}

TagInputs == {"Fitness"}

ResearchTagInputs == {"Sleep (Timing & Health)", "Exercise (Time-of-Day Effects)"}

\* int(round(sleep_hours * 60)) for the slider's value, 6.0 to 11.0 hours
SleepDurations == {9 * 60}

\* the number input's value, 5 to 480 minutes
EventDurations == {60}

DurationInputs(research_tag) ==
    IF research_tag = "Sleep (Timing & Health)" THEN SleepDurations
    ELSE EventDurations

ManualTexts ==
    { <<"9:00 AM", "10:00 AM">>, <<"9:00 AM", "9:00 AM">>,
      <<"11:45 PM", "10:00 AM">> }

\* Add Event in the mode "Research-Based"
CreateEventResearch(s, limit) ==
    /\ started[s]
    /\ page[s] = "Calendar"
    /\ nextId < limit
    /\ \E research_tag \in ResearchTagInputs, ev_date \in Days :
       \E duration_min \in DurationInputs(research_tag) :
          LET base_tag == PaperBaseTag(research_tag)
              start_t == PaperDefaultStart(research_tag)
              proposed == Combine(ev_date, start_t)
              slot == find_next_free_slot(events[s], ev_date, proposed, duration_min)
              new_ev == Rec(nextId + 1, "event", FALSE, IsoDateTime(slot.start),
                            IsoDateTime(slot.end), <<research_tag, base_tag>>,
                            "Research-Based", FALSE)
          IN  /\ AppendAndSave(s, new_ev)
              /\ last' = Op("create_research", s, nextId + 1, slot.start, slot.end)

\* BumpedEnd with `if edt < sdt`
BumpedEndStrict(sdt, edt) == IF edt < sdt THEN sdt + BumpMinutes ELSE edt

\* The end of a manual or edited event: start + 30 minutes when not after start
BumpedEnd(sdt, edt) == IF edt <= sdt THEN sdt + BumpMinutes ELSE edt

\* Add Event in the mode "Manual (pick times)"
CreateEventManual(s, limit) ==
    /\ started[s]
    /\ page[s] = "Calendar"
    /\ nextId < limit
    /\ \E ev_date \in Days, ev_tag \in TagInputs, texts \in ManualTexts :
          LET start_text == texts[1]
              end_text == texts[2]
              start_t == _parse_time_12h(start_text, 9 * 60)
              end_t == _parse_time_12h(end_text, 10 * 60)
              sdt == Combine(ev_date, start_t)
              edt == Combine(ev_date, end_t)
              new_ev == Rec(nextId + 1, "event", FALSE, IsoDateTime(sdt),
                            IsoDateTime(BumpedEnd(sdt, edt)), <<ev_tag>>,
                            "Manual (pick times)", FALSE)
          IN  /\ AppendAndSave(s, new_ev)
              /\ last' = Op("create_manual", s, nextId + 1, sdt, edt)

\* Add Event in the mode "Your best time"
CreateEventBestTime(s, limit) ==
    /\ started[s]
    /\ page[s] = "Calendar"
    /\ nextId < limit
    /\ \E ev_date \in Days, ev_tag \in TagInputs, duration_min \in EventDurations :
          LET start_t == suggest_best_time_from_history(events[s], ev_tag)
              proposed == Combine(ev_date, start_t)
              slot == find_next_free_slot(events[s], ev_date, proposed, duration_min)
              new_ev == Rec(nextId + 1, "event", FALSE, IsoDateTime(slot.start),
                            IsoDateTime(slot.end), <<ev_tag>>, "Your best time", FALSE)
          IN  /\ AppendAndSave(s, new_ev)
              /\ last' = Op("create_best_time", s, nextId + 1, slot.start, slot.end)

\* Add Task
CreateTask(s, limit) ==
    /\ started[s]
    /\ page[s] = "Calendar"
    /\ nextId < limit
    /\ \E t_date \in Days, t_tag \in TagInputs, t_done \in {FALSE} :
          LET new_task == Rec(nextId + 1, "task", TRUE, iso_date(t_date), Absent,
                              <<t_tag>>, "", t_done)
          IN  /\ AppendAndSave(s, new_task)
              /\ last' = Op("create_task", s, nextId + 1, 0, 0)

----------------------------------------------------------------------------
(* Edit / Delete *)

\* SelectedIndex that takes the first record of the store
SelectedIndexFirst(s) ==
    IF selected_event_id[s] = None \/ events[s] = <<>> THEN 0 ELSE 1

\* The index of the first record with the selected id, 0 when there is none
\* (or nothing is selected)
SelectedIndex(s) ==
    LET hits == {i \in 1..Len(events[s]) : events[s][i].id = selected_event_id[s]}
    IN  IF selected_event_id[s] = None \/ hits = {} THEN 0
        ELSE CHOOSE i \in hits : \A j \in hits : i <= j

\* (ev.get("start") or "")[:10]: the date part of a stored start, as a date
\* string
start10(start) ==
    IF start.fmt \in {"datetime", "date"} THEN iso_date(start.date) ELSE start

\* A click on an item of the calendar: its id becomes the selected id, and the
\* date of its start the selected date and the anchor
EventClick(s) ==
    /\ started[s]
    /\ page[s] = "Calendar"
    /\ \E i \in 1..Len(events[s]) :
          /\ selected_event_id' = [selected_event_id EXCEPT ![s] = events[s][i].id]
          /\ IF events[s][i].start.fmt # "absent"
             THEN /\ selected_date' =
                        [selected_date EXCEPT ![s] = start10(events[s][i].start)]
                  /\ anchor_date' =
                        [anchor_date EXCEPT ![s] = start10(events[s][i].start)]
             ELSE UNCHANGED <<selected_date, anchor_date>>
          /\ last' = Op("event_click", s, events[s][i].id, 0, 0)
    /\ UNCHANGED <<events, started, file, nextId, persisted, page, view, call, ret>>
    /\ FeedbackUnchanged

\* A click event whose id is the id of no record of the store (an id a deleted
\* record had): the handler stores whatever id the calendar component delivers
StaleEventClick(s) ==
    /\ started[s]
    /\ page[s] = "Calendar"
    /\ \E id \in (1..nextId) \ IdsOf(events[s]) :
          /\ selected_event_id' = [selected_event_id EXCEPT ![s] = id]
          /\ last' = Op("event_click", s, id, 0, 0)
    /\ \E day \in Days :
          /\ selected_date' = [selected_date EXCEPT ![s] = iso_date(day)]
          /\ anchor_date' = [anchor_date EXCEPT ![s] = iso_date(day)]
    /\ UNCHANGED <<events, started, file, nextId, persisted, page, view, call, ret>>
    /\ FeedbackUnchanged

\* _safe_time_from_iso: the time of an ISO datetime, the fallback otherwise
_safe_time_from_iso(value, fallback) ==
    IF value.fmt = "datetime" THEN value.hh * 60 + value.mm ELSE fallback

\* The (Start, End) times the inputs of the edit form are set to
EditTimePairs == {<<9 * 60, 10 * 60>>, <<10 * 60, 9 * 60>>}

\* The dates the edit form's Date is set to
EditDays == {1}

\* The tags the edit form's Tag is set to
EditTagInputs == {"Health"}

\* existing_tags[0] = ed_tag, or [ed_tag] when the record has no tag
EditedTags(tags, ed_tag) ==
    IF tags # <<>> THEN [tags EXCEPT ![1] = ed_tag] ELSE <<ed_tag>>

\* The record as Save leaves it.  ed_start and ed_end are read only for a timed
\* event.
EditedRecord(ev, ed_tag, ed_date, ed_all_day, ed_start, ed_end, ed_done) ==
    LET tagged == [ev EXCEPT !.tags = EditedTags(ev.tags, ed_tag)]
        sdt == Combine(ed_date, ed_start)
        edt == Combine(ed_date, ed_end)
    IN  IF ev.kind = "task"
        THEN [tagged EXCEPT !.allDay = TRUE, !.start = iso_date(ed_date),
                            !.done = ed_done, !.end = Absent]
        ELSE IF ed_all_day
        THEN [tagged EXCEPT !.allDay = TRUE, !.start = iso_date(ed_date),
                            !.end = Absent]
        ELSE [tagged EXCEPT !.allDay = FALSE, !.start = IsoDateTime(sdt),
                            !.end = IsoDateTime(BumpedEnd(sdt, edt))]

\* Save of the edit form.  The time inputs exist while the form shows the record
\* as a timed event; when All-day is unchecked in the submission itself they are
\* created with their default values.
EditSave(s) ==
    /\ started[s]
    /\ page[s] = "Calendar"
    /\ SelectedIndex(s) # 0
    /\ LET i == SelectedIndex(s)
           ev == events[s][i]
           shown == {<<_safe_time_from_iso(ev.start, 9 * 60),
                       _safe_time_from_iso(ev.end, 10 * 60)>>}
       IN  \E ed_tag \in EditTagInputs, ed_date \in EditDays, ed_all_day \in BOOLEAN,
              ed_done \in BOOLEAN :
           \E times \in IF ev.kind = "event" /\ ~ev.allDay /\ ~ed_all_day
                         THEN EditTimePairs ELSE shown :
           LET ed_start == times[1]
               ed_end == times[2]
           IN
              /\ ev.kind = "task" => ed_all_day
              /\ ev.kind # "task" => ~ed_done
              /\ Persist(s, [events[s] EXCEPT ![i] =
                    EditedRecord(ev, ed_tag, ed_date, ed_all_day, ed_start, ed_end,
                                 ed_done)])
              /\ last' = IF ev.kind = "event" /\ ~ed_all_day
                         THEN Op("edit_save_timed", s, ev.id, Combine(ed_date, ed_start),
                                 Combine(ed_date, ed_end))
                         ELSE Op("edit_save", s, ev.id, 0, 0)
    /\ selected_event_id' = [selected_event_id EXCEPT ![s] = None]
    /\ UNCHANGED <<started, nextId, call, ret>>
    /\ NavUnchanged
    /\ FeedbackUnchanged

\* Delete of the edit form
EditDelete(s) ==
    /\ started[s]
    /\ page[s] = "Calendar"
    /\ SelectedIndex(s) # 0
    /\ LET id == events[s][SelectedIndex(s)].id
           NotIt(ev) == ev.id # id
       IN  /\ Persist(s, SelectSeq(events[s], NotIt))
           /\ last' = Op("edit_delete", s, id, 0, 0)
    /\ selected_event_id' = [selected_event_id EXCEPT ![s] = None]
    /\ UNCHANGED <<started, nextId, call, ret>>
    /\ NavUnchanged
    /\ FeedbackUnchanged

----------------------------------------------------------------------------
(* The application in one session *)

\* The number of records one run creates
MaxCreates == 2

Init == AppIdle /\ call = NoCall /\ ret = NoRet

Next ==
    \/ SessionStart(1)
    \/ CreateEventResearch(1, MaxCreates)
    \/ CreateEventManual(1, MaxCreates)
    \/ CreateEventBestTime(1, MaxCreates)
    \/ CreateTask(1, MaxCreates)
    \/ EventClick(1)
    \/ EditSave(1)
    \/ EditDelete(1)

Spec == Init /\ [][Next]_vars

\* The start and the end of a timed record, in minutes
StartOf(ev) == _parse_iso_dt(ev.start)

EndOf(ev) == _parse_iso_dt(ev.end)

IsTimedEvent(ev) == ev.kind = "event" /\ ~ev.allDay

\* C5: every timed event, in the memory of a session and in the file, ends
\* strictly after it starts; and a manual create or an edit whose end is not
\* after its start stores end = start + 30 minutes.
C5_EndAfterStart ==
    /\ \A s \in Sessions : \A i \in 1..Len(events[s]) :
          IsTimedEvent(events[s][i]) =>
              /\ StartOf(events[s][i]) # None
              /\ EndOf(events[s][i]) # None
              /\ EndOf(events[s][i]) > StartOf(events[s][i])
    /\ \A i \in 1..Len(file.data) :
          IsTimedEvent(file.data[i]) => EndOf(file.data[i]) > StartOf(file.data[i])
    /\ (last.op \in {"create_manual", "edit_save_timed"} /\ last.edt <= last.sdt)
          => \E i \in 1..Len(events[last.session]) :
                /\ events[last.session][i].id = last.id
                /\ StartOf(events[last.session][i]) = last.sdt
                /\ EndOf(events[last.session][i]) = last.sdt + 30

\* C5, its case: Save of the edit form, on an event an AI mode had placed, with
\* an end before its start, stored end = start + 30 minutes.
C5_Witness ==
    /\ last.op = "edit_save_timed"
    /\ last.edt < last.sdt
    /\ \E i \in 1..Len(events[last.session]) :
          /\ events[last.session][i].id = last.id
          /\ events[last.session][i].scheduling_mode # "Manual (pick times)"
          /\ EndOf(events[last.session][i]) = StartOf(events[last.session][i]) + 30

----------------------------------------------------------------------------
(* Events created through the AI-driven modes only: claim C1 *)

\* The number of events one such run creates
MaxAiCreates == 4

NextAi ==
    \/ SessionStart(1)
    \/ CreateEventResearch(1, MaxAiCreates)
    \/ CreateEventBestTime(1, MaxAiCreates)

SpecAi == Init /\ [][NextAi]_vars

\* Records i and j of session 1 are timed events that overlap, half-open
OverlapAt(i, j) ==
    LET a == events[1][i]
        b == events[1][j]
    IN  /\ IsTimedEvent(a)
        /\ IsTimedEvent(b)
        /\ StartOf(a) < EndOf(b)
        /\ EndOf(a) > StartOf(b)

\* C1 as stated: no two timed events created through the AI-driven modes
\* overlap.
C1_Original ==
    \A i \in 1..Len(events[1]) : \A j \in 1..Len(events[1]) :
        i < j => ~OverlapAt(i, j)

\* Record j was placed at the latest start of its day for its duration (it ends
\* at 23:59), or its day held more than 200 busy intervals when it was placed
LastResortAt(j) ==
    LET b == events[1][j]
        day == DateOf(StartOf(b))
    IN  \/ StartOf(b) = Max2(Combine(day, 0),
                             Combine(day, 23 * 60 + 59) - (EndOf(b) - StartOf(b)))
        \/ Len(_busy_intervals_for_date(SubSeq(events[1], 1, j - 1), day)) > 200

\* C1 as amended: two timed events created through the AI-driven modes overlap
\* only when the one created later was placed at latestStart of its day, the
\* last resort, or when its day already held more than 200 busy intervals.
C1_Amended ==
    \A i \in 1..Len(events[1]) : \A j \in 1..Len(events[1]) :
        (i < j /\ OverlapAt(i, j)) => LastResortAt(j)

\* C1, its case: two events created through the AI-driven modes overlap, the
\* later one placed at latestStart; and an event placed after a jump past a busy
\* interval overlaps nothing.
C1_Witness ==
    /\ \E i \in 1..Len(events[1]) : \E j \in 1..Len(events[1]) :
          i < j /\ OverlapAt(i, j) /\ LastResortAt(j)
    /\ \E i \in 1..Len(events[1]) : \E j \in 1..Len(events[1]) :
          /\ i < j
          /\ IsTimedEvent(events[1][i])
          /\ IsTimedEvent(events[1][j])
          /\ StartOf(events[1][j]) = EndOf(events[1][i])

----------------------------------------------------------------------------
(* Two sessions on one DATA_FILE: claim C6 *)

\* The number of records the two sessions create together
MaxSharedCreates == 3

NextShared ==
    \E s \in Sessions :
        \/ SessionStart(s)
        \/ CreateTask(s, MaxSharedCreates)
        \/ CreateEventResearch(s, MaxSharedCreates)

SpecShared == Init /\ [][NextShared]_vars

\* C6: each session loads the collection once, at its start, and every save
\* overwrites the file with the saving session's own collection: right after a
\* mutation the file holds exactly that session's records.  So a record another
\* session persisted after this one started is lost (C6_LostUpdate is reached).
C6_WholeFileOverwrite ==
    /\ last.op \notin {"none", "start"} =>
          /\ file.exists
          /\ file.data = events[last.session]
    /\ \A id \in persisted \ IdsOf(file.data) :
          last.op \notin {"none", "start"} /\ id \notin IdsOf(events[last.session])

\* C6, its case: a record one session created and persisted is absent from the
\* file after a later save by the other session, while its creator still holds
\* it.
C6_LostUpdate ==
    \E id \in persisted : \E s \in Sessions :
        /\ id \notin IdsOf(file.data)
        /\ s # last.session
        /\ last.op \in {"create_task", "create_research"}
        /\ id \in IdsOf(events[s])
        /\ id \notin IdsOf(events[last.session])

----------------------------------------------------------------------------
(* Calls of the slot search and of the busy-interval extraction on their own *)

\* The longest store the calls are tried on
MaxStore == 2

\* A timed event of the store, from start s to end e
Ev(s, e) == Rec(0, "event", FALSE, IsoDateTime(s), IsoDateTime(e), <<>>, "", FALSE)

\* The records the stores are built from: timed events of day 0 that touch,
\* nest, cover the day or run past midnight, an event of day 1, and the
\* records the extraction has to drop.
SlotPool ==
    { Ev(600, 660), Ev(660, 720), Ev(600, 720), Ev(0, 1439), Ev(0, 720),
      Ev(720, 1439), Ev(1379, 1439), Ev(1425, 1455),
      Ev(600, 600), Ev(660, 600),
      Ev(MinutesPerDay + 600, MinutesPerDay + 660),
      Rec(0, "task", TRUE, iso_date(0), Absent, <<>>, "", FALSE),
      Rec(0, "event", TRUE, iso_date(0), Absent, <<>>, "", FALSE),
      Rec(0, "event", FALSE, IsoDateTime(600), Malformed, <<>>, "", FALSE),
      Rec(0, "event", TRUE, IsoDateTime(600), IsoDateTime(660), <<>>, "", FALSE),
      Rec(0, "task", FALSE, IsoDateTime(600), IsoDateTime(660), <<>>, "", FALSE) }

SmallStores == UNION { [1..n -> SlotPool] : n \in 0..MaxStore }

\* n timed events that together cover day 0 from 00:00 to 23:59: n - 1 events
\* of one minute each, back to back from 00:00, and one event for the rest
DenseStore(n) ==
    [i \in 1..n |-> IF i < n THEN Ev(i - 1, i) ELSE Ev(n - 1, DayEndMinute)]

\* n timed events of one minute each, back to back from 00:00 of day 0
ChainStore(n) == [i \in 1..n |-> Ev(i - 1, i)]

SlotStores ==
    SmallStores \cup {DenseStore(CapRounds), DenseStore(CapRounds + 1),
                      ChainStore(CapRounds - 1), ChainStore(CapRounds)}

SlotDays == {0, 1}

SlotProposals == {0, 600, 660, 1379, MinutesPerDay + 600}

SlotDurations == {60, 480, 1439, 1500}


InitSlot ==
    /\ AppIdle
    /\ ret = NoRet
    /\ \/ \E evs \in SlotStores, day \in SlotDays,
             p \in SlotProposals, d \in SlotDurations :
             call = [fn |-> "find_next_free_slot", events |-> evs, day |-> day,
                     proposed_start |-> p, duration_min |-> d]
       \/ \E evs \in SlotStores, day \in SlotDays :
             call = [fn |-> "_busy_intervals_for_date", events |-> evs, day |-> day,
                     proposed_start |-> 0, duration_min |-> 0]

CallFindNextFreeSlot ==
    /\ call.fn = "find_next_free_slot"
    /\ ret = NoRet
    /\ ret' = find_next_free_slot(call.events, call.day, call.proposed_start,
                                  call.duration_min)
    /\ UNCHANGED call
    /\ AppUnchanged

CallBusyIntervals ==
    /\ call.fn = "_busy_intervals_for_date"
    /\ ret = NoRet
    /\ ret' = [path |-> "returned",
               intervals |-> _busy_intervals_for_date(call.events, call.day)]
    /\ UNCHANGED call
    /\ AppUnchanged

NextSlot == CallFindNextFreeSlot \/ CallBusyIntervals

SpecSlot == InitSlot /\ [][NextSlot]_vars

----------------------------------------------------------------------------
(* The slot search and the busy-interval extraction: claims C2-C4, C7-C9 *)

\* find_next_free_slot has returned
SlotReturned == call.fn = "find_next_free_slot" /\ ret # NoRet

\* The call's busy intervals, day bounds and clamped proposal
CallBusy == _busy_intervals_for_date(call.events, call.day)

CallDayStart == Combine(call.day, 0)

CallDayEnd == Combine(call.day, DayEndMinute)

CallLatest == Max2(CallDayStart, CallDayEnd - call.duration_min)

CallClamped ==
    IF call.proposed_start < CallDayStart THEN CallDayStart
    ELSE IF call.proposed_start > CallLatest THEN CallLatest
    ELSE call.proposed_start

\* C2: on every return path of find_next_free_slot, end - start is exactly the
\* requested duration.
C2_DurationExact ==
    SlotReturned => ret.end - ret.start = call.duration_min

\* C2, its case: the search returned by running out of its 200 rounds, after
\* 200 jumps, and the window has the requested length.
C2_Witness ==
    /\ SlotReturned
    /\ ret.path = "cap"
    /\ ret.rounds = CapRounds
    /\ ret.end - ret.start = call.duration_min

\* The store holds exactly one busy interval on the day, and it is
\* [P, P + duration) for the proposed start P, which lies on the day
ExactCover ==
    /\ DateOf(call.proposed_start) = call.day
    /\ CallBusy = << <<call.proposed_start, call.proposed_start + call.duration_min>> >>

\* C3 as stated: with one busy interval exactly covering the proposed window,
\* the returned start is at or after that interval's end.
C3_Original ==
    (SlotReturned /\ ExactCover)
        => ret.start >= call.proposed_start + call.duration_min

\* C3 as amended: with one busy interval exactly covering the proposed window,
\* the returned start is at or after that interval's end when that end is not
\* after latestStart, and is latestStart when it is.
C3_Amended ==
    (SlotReturned /\ ExactCover)
        => IF call.proposed_start + call.duration_min <= CallLatest
           THEN ret.start >= call.proposed_start + call.duration_min
           ELSE ret.start = CallLatest

\* C3, its case: the interval covering the proposed window ends before
\* latestStart and the search returned a start at its end.
C3_Witness ==
    /\ SlotReturned
    /\ ExactCover
    /\ call.proposed_start + call.duration_min < CallLatest
    /\ ret.start = call.proposed_start + call.duration_min

\* Every instant of the day from 00:00 to 23:59 lies in a busy interval: 00:00
\* does, and so does every interval end before 23:59
CoversDay ==
    LET busy == CallBusy
        Covered(t) == \E i \in 1..Len(busy) : busy[i][1] <= t /\ t < busy[i][2]
    IN  /\ Covered(CallDayStart)
        /\ \A i \in 1..Len(busy) : busy[i][2] < CallDayEnd => Covered(busy[i][2])

\* C4 as stated: when the busy intervals cover the whole day, however many they
\* are and whatever the duration, the window starts at latestStart and ends at or
\* before 23:59.
C4_Original ==
    (SlotReturned /\ CoversDay)
        => ret.start = CallLatest /\ ret.end <= CallDayEnd

\* C4 as amended: when at most 200 busy intervals cover the whole day and the
\* duration is at most 1439 minutes, the window starts at latestStart and ends at
\* or before 23:59.
C4_Amended ==
    (/\ SlotReturned
     /\ CoversDay
     /\ Len(CallBusy) <= CapRounds
     /\ call.duration_min <= DayEndMinute)
        => ret.start = CallLatest /\ ret.end <= CallDayEnd

\* C4, its case: 200 busy intervals cover the day, and the search reached
\* latestStart with the last of its 200 rounds.
C4_Witness ==
    /\ SlotReturned
    /\ CoversDay
    /\ Len(CallBusy) = CapRounds
    /\ ret.rounds = CapRounds
    /\ ret.start = CallLatest
    /\ ret.end = CallDayEnd

\* C7: when the day has no busy interval, the returned start is the proposed
\* start clamped into [dayStart, latestStart], and end = start + duration.
C7_EmptyDay ==
    (SlotReturned /\ CallBusy = <<>>)
        => /\ ret.start = CallClamped
           /\ ret.end = ret.start + call.duration_min
           /\ (CallDayStart <= call.proposed_start /\ call.proposed_start <= CallLatest
                  => ret.start = call.proposed_start)

\* C7, its case: the store holds records, none of them busy on the day, and the
\* proposal had to be clamped down to latestStart.
C7_Witness ==
    /\ SlotReturned
    /\ call.events # <<>>
    /\ CallBusy = <<>>
    /\ call.proposed_start > CallLatest
    /\ ret.start = CallLatest

\* C8: the overlap test is half-open.  A busy interval that ends exactly at the
\* window's start or starts exactly at its end does not overlap it; and when
\* every busy interval of the day ends at or before the clamped proposal or
\* starts at or after its end, the clamped proposal is returned as it is.
C8_HalfOpen ==
    SlotReturned =>
        LET busy == CallBusy
        IN  /\ \A i \in 1..Len(busy) :
                  (busy[i][2] = ret.start \/ busy[i][1] = ret.end)
                      => ~_overlaps(ret.start, ret.end, busy[i][1], busy[i][2])
            /\ (\A i \in 1..Len(busy) :
                   \/ busy[i][2] <= CallClamped
                   \/ busy[i][1] >= CallClamped + call.duration_min)
                  => ret.start = CallClamped /\ ret.rounds = 0

\* C8, its case: one busy interval ends exactly at the candidate's start,
\* another starts exactly at its end, and the candidate was not displaced.
C8_Witness ==
    /\ SlotReturned
    /\ LET busy == CallBusy
       IN  /\ \E i \in 1..Len(busy) : busy[i][2] = CallClamped
           /\ \E i \in 1..Len(busy) : busy[i][1] = CallClamped + call.duration_min
    /\ ret.start = CallClamped
    /\ ret.path = "free"

\* _busy_intervals_for_date has returned
BusyReturned == call.fn = "_busy_intervals_for_date" /\ ret # NoRet

\* The record is of kind event, not all-day, with a start and an end that parse,
\* starting on the call's day and ending after it starts
IsBusyRecord(ev) ==
    /\ ev.kind = "event"
    /\ ev.allDay = FALSE
    /\ ev.start.fmt = "datetime"
    /\ ev.end.fmt = "datetime"
    /\ ev.start.date = call.day
    /\ \/ ev.end.date > ev.start.date
       \/ /\ ev.end.date = ev.start.date
          /\ ev.end.hh * 60 + ev.end.mm > ev.start.hh * 60 + ev.start.mm

\* The (start, end) pair of a record, in minutes
PairOf(ev) ==
    << ev.start.date * MinutesPerDay + ev.start.hh * 60 + ev.start.mm,
       ev.end.date * MinutesPerDay + ev.end.hh * 60 + ev.end.mm >>

\* C9: _busy_intervals_for_date returns exactly the (start, end) pairs of the
\* records that are events, not all-day, with a parseable start and end, that
\* start on the day and end after they start (each pair as often as such records
\* have it), sorted ascending by start.
C9_BusyIntervals ==
    BusyReturned =>
        LET out == ret.intervals
            evs == call.events
            busy == {i \in 1..Len(evs) : IsBusyRecord(evs[i])}
        IN  /\ Len(out) = Cardinality(busy)
            /\ \A i \in busy :
                  Cardinality({k \in 1..Len(out) : out[k] = PairOf(evs[i])})
                      = Cardinality({j \in busy : PairOf(evs[j]) = PairOf(evs[i])})
            /\ \A k \in 1..Len(out) : \E i \in busy : out[k] = PairOf(evs[i])
            /\ \A k \in 1..(Len(out) - 1) : out[k][1] <= out[k + 1][1]

\* C9, its case: the store holds two busy records of the day, the later one
\* first, and the extraction returned them in the other order.
C9_Witness ==
    /\ BusyReturned
    /\ Len(call.events) >= 2
    /\ IsBusyRecord(call.events[1])
    /\ IsBusyRecord(call.events[2])
    /\ PairOf(call.events[1])[1] > PairOf(call.events[2])[1]
    /\ Len(ret.intervals) >= 2
    /\ ret.intervals[1] = PairOf(call.events[2])

----------------------------------------------------------------------------
(* The slot search against a scan that does not restart: claim C15 *)

\* The scan that goes on: one interval of the single pass.  A conflicting
\* interval moves the window as Advance does; the scan returns at latest_start
\* and after CapRounds jumps, as the rounds of find_next_free_slot do.
ContinueStep(interval, duration, latest_start, st) ==
    IF st.path # "running" THEN st
    ELSE IF ~_overlaps(st.start, st.end, interval[1], interval[2]) THEN st
    ELSE LET a == Advance(interval[2], latest_start, duration)
         IN  [start |-> a.start, end |-> a.end,
              path |-> IF a.start = latest_start THEN "latest"
                       ELSE IF st.rounds + 1 = CapRounds THEN "cap"
                       ELSE "running",
              rounds |-> st.rounds + 1]

\* The single pass over intervals[lo..hi], lo <= hi
RECURSIVE ContinueScan(_, _, _, _, _, _)
ContinueScan(intervals, duration, latest_start, st, lo, hi) ==
    IF st.path # "running" THEN st
    ELSE IF lo = hi THEN ContinueStep(intervals[lo], duration, latest_start, st)
    ELSE LET mid == (lo + hi) \div 2
         IN  ContinueScan(intervals, duration, latest_start,
                          ContinueScan(intervals, duration, latest_start, st, lo, mid),
                          mid + 1, hi)

\* find_next_free_slot with the scan going on after the conflicting interval
\* instead of restarting from the top of the list
SlotWithoutRestart(evs, day, proposed_start, duration_min) ==
    LET latest_start == LatestStart(day, duration_min)
        start == ClampStart(day, proposed_start, duration_min)
        intervals == _busy_intervals_for_date(evs, day)
        st == ContinueScan(intervals, duration_min, latest_start,
                           [start |-> start, end |-> start + duration_min,
                            path |-> "running", rounds |-> 0],
                           1, Len(intervals))
    IN  IF intervals = <<>>
        THEN [start |-> start, end |-> start + duration_min]
        ELSE [start |-> st.start, end |-> st.end]

\* The two searches return the same window for the arguments
SameWindow(evs, day, proposed_start, duration_min) ==
    LET a == find_next_free_slot(evs, day, proposed_start, duration_min)
        b == SlotWithoutRestart(evs, day, proposed_start, duration_min)
    IN  a.start = b.start /\ a.end = b.end

\* C15 as stated: for some store, day, proposed start and duration the search
\* that does not restart returns a window other than find_next_free_slot's.
C15_Original ==
    call.fn = "find_next_free_slot" =>
        \E evs \in SlotStores, day \in SlotDays, p \in SlotProposals,
           d \in SlotDurations : ~SameWindow(evs, day, p, d)

\* C15 as amended: the restart changes no result.  The intervals before the
\* conflicting one in the sorted list did not overlap the window before the
\* jump, so they end at or before its start and cannot overlap the window after
\* it: the search that does not restart returns the window find_next_free_slot
\* returns, for every store, day, proposed start and duration.
C15_Amended ==
    SlotReturned =>
        LET b == SlotWithoutRestart(call.events, call.day, call.proposed_start,
                                    call.duration_min)
        IN  b.start = ret.start /\ b.end = ret.end

\* C15, its case: the search jumped twice, the second time past an interval
\* that begins where the first does and ends later, and both searches return
\* the window after it.
C15_Witness ==
    /\ SlotReturned
    /\ ret.path = "free"
    /\ ret.rounds = 2
    /\ Len(CallBusy) = 2
    /\ CallBusy[1][1] = CallBusy[2][1]
    /\ CallBusy[1][2] < CallBusy[2][2]
    /\ ret.start = CallBusy[2][2]
    /\ SameWindow(call.events, call.day, call.proposed_start, call.duration_min)

----------------------------------------------------------------------------
(* The slot search: what it returns and when: claims C16-C18 *)

\* The window of length d starting at s overlaps no interval of busy
SlotFreeAt(busy, s, d) ==
    \A i \in 1..Len(busy) : ~(s < busy[i][2] /\ s + d > busy[i][1])

\* C16: with at most 200 busy intervals on the day and a positive duration, the
\* returned start is the earliest start from the clamped proposal to latestStart
\* whose window overlaps no busy interval of the day; when there is none it is
\* latestStart, whose window conflicts.  (When latestStart itself is the
\* earliest free start the two cases give the same window.)
C16_EarliestFree ==
    (SlotReturned /\ call.duration_min > 0) =>
        LET busy == CallBusy
            d == call.duration_min
            free == {s \in CallClamped..CallLatest : SlotFreeAt(busy, s, d)}
        IN  Len(busy) <= 200 =>
               IF free # {}
               THEN /\ ret.start \in free
                    /\ \A s \in free : ret.start <= s
               ELSE /\ ret.start = CallLatest
                    /\ ~SlotFreeAt(busy, ret.start, d)

\* C16, its case: the first free start lies behind two busy intervals that
\* leave no gap between them, and the search returns it after two jumps.
C16_Witness ==
    /\ SlotReturned
    /\ ret.path = "free"
    /\ ret.rounds = 2
    /\ Len(CallBusy) = 2
    /\ CallBusy[1][2] = CallBusy[2][1]
    /\ ret.start = CallBusy[2][2]
    /\ SlotFreeAt(CallBusy, ret.start, call.duration_min)

\* The rounds of the search: a round that does not return moves start forward,
\* and the search makes no more jumps than the day has busy intervals
RoundsAdvance ==
    LET busy == CallBusy
        d == call.duration_min
        Round(s) == SlotRound(busy, d, CallLatest,
                              [start |-> s, end |-> s + d, path |-> "running",
                               rounds |-> 0])
    IN  /\ ret.rounds <= Len(busy)
        /\ Round(CallClamped).path = "running" => Round(CallClamped).start > CallClamped
        /\ Len(busy) <= 4 =>
              \A s \in CallClamped..CallLatest :
                  Round(s).path = "running" => Round(s).start > s

\* C17 as stated: every round that does not return strictly increases start,
\* with N busy intervals the search returns within N + 1 rounds, and the cap is
\* the reason for returning only when the day has more than 200 busy intervals.
C17_Original ==
    SlotReturned =>
        /\ RoundsAdvance
        /\ ret.path = "cap" => Len(CallBusy) > 200

\* C17 as amended: every round that does not return strictly increases start,
\* with N busy intervals the search returns within N + 1 rounds, and the cap is
\* the reason for returning only when the day has at least 200 busy intervals
\* (with exactly 200 the 200th round jumps past the last of them and the loop
\* ends before a 201st round can find the window free).
C17_Amended ==
    SlotReturned =>
        /\ RoundsAdvance
        /\ ret.path = "cap" => Len(CallBusy) >= 200

\* C17, its case: the day has exactly 200 busy intervals, the search jumps past
\* each of them and returns by running out of rounds, with a free window.
C17_Witness ==
    /\ SlotReturned
    /\ Len(CallBusy) = 200
    /\ ret.path = "cap"
    /\ ret.rounds = 200
    /\ ret.start = CallBusy[200][2]
    /\ ret.start < CallLatest

\* C18: for a positive duration of at most 1439 minutes the returned window lies
\* inside the requested day: dayStart <= start <= latestStart, end <= dayEnd,
\* and start is not before the proposed start clamped into
\* [dayStart, latestStart]; the window does not span midnight.
C18_InsideDay ==
    (SlotReturned /\ call.duration_min \in 1..1439) =>
        LET dayStart == call.day * 1440
            dayEnd == call.day * 1440 + 1439
            latestStart == dayEnd - call.duration_min
            clamped == IF call.proposed_start < dayStart THEN dayStart
                       ELSE IF call.proposed_start > latestStart THEN latestStart
                       ELSE call.proposed_start
        IN  /\ dayStart <= ret.start
            /\ ret.start <= latestStart
            /\ ret.end <= dayEnd
            /\ clamped <= ret.start
            /\ ret.start \div 1440 = call.day
            /\ ret.end \div 1440 = call.day

\* C18, its case: a proposal on the day after the requested one, for a day with
\* busy intervals, is brought back and placed so that it ends at 23:59.
C18_Witness ==
    /\ SlotReturned
    /\ call.duration_min \in 1..1439
    /\ call.proposed_start \div 1440 > call.day
    /\ CallBusy # <<>>
    /\ ret.path = "free"
    /\ ret.end = call.day * 1440 + 1439

----------------------------------------------------------------------------
(* Calls of add_months on their own: claim C10 *)

\* The largest shift, in months, add_months is tried on, in each direction
MaxDelta == 25

AnchorYears == {1900, 2000, 2023, 2024}

AnchorDays == {1, 28, 29, 30, 31}

Anchors ==
    {Date(y, m, d) : y \in AnchorYears, m \in 1..12, d \in AnchorDays}

InitMonths ==
    /\ AppIdle
    /\ ret = NoRet
    /\ \E a \in Anchors, delta \in (-MaxDelta)..MaxDelta :
          /\ a.day <= DaysInMonth(a.year, a.month)
          /\ call = [fn |-> "add_months", anchor |-> a, delta_months |-> delta]

CallAddMonths ==
    /\ call.fn = "add_months"
    /\ ret = NoRet
    /\ ret' = [path |-> "returned",
               date |-> add_months(call.anchor, call.delta_months)]
    /\ UNCHANGED call
    /\ AppUnchanged

NextMonths == CallAddMonths

SpecMonths == InitMonths /\ [][NextMonths]_vars

AddMonthsReturned == call.fn = "add_months" /\ ret # NoRet

\* The calendar's length of a month
MonthLength(y, m) ==
    CASE m \in {4, 6, 9, 11} -> 30
      [] m = 2 -> IF y % 400 = 0 \/ (y % 4 = 0 /\ y % 100 # 0) THEN 29 ELSE 28
      [] OTHER -> 31

----------------------------------------------------------------------------
(* Weeks: start_of_week on dates given as proleptic ordinals, as            *)
(* dt.date.toordinal() numbers them: 1 is 0001-01-01, a Monday              *)

\* dt.date.min.toordinal()
MinOrdinal == 1

\* d.weekday(): Mon=0 ... Sun=6
weekday(d) == (d + 6) % 7

\* d - dt.timedelta(days=n): OverflowError before dt.date.min
DateMinusDays(d, n) ==
    IF d - n < MinOrdinal
    THEN [raised |-> TRUE, date |-> None]
    ELSE [raised |-> FALSE, date |-> d - n]

\* start_of_week with sunday_index = wd
StartOfWeekNoShift(d, week_starts_monday) == DateMinusDays(d, weekday(d))

start_of_week(d, week_starts_monday) ==
    LET wd == weekday(d)
        sunday_index == (wd + 1) % 7
    IN  IF week_starts_monday
        THEN DateMinusDays(d, wd)
        ELSE DateMinusDays(d, sunday_index)

\* The last ordinal of the dates start_of_week is called on
MaxOrdinal == 60

InitWeek ==
    /\ AppIdle
    /\ ret = NoRet
    /\ \E d \in MinOrdinal..MaxOrdinal, flag \in BOOLEAN :
          call = [fn |-> "start_of_week", d |-> d, week_starts_monday |-> flag]

CallStartOfWeek ==
    /\ call.fn = "start_of_week"
    /\ ret = NoRet
    /\ ret' = [path |-> "returned",
               week |-> start_of_week(call.d, call.week_starts_monday)]
    /\ UNCHANGED call
    /\ AppUnchanged

NextWeek == CallStartOfWeek

SpecWeek == InitWeek /\ [][NextWeek]_vars

StartOfWeekReturned == call.fn = "start_of_week" /\ ret # NoRet

\* The number of the week a date lies in: weeks run Sunday..Saturday (ordinal 7
\* is the first Sunday) or Monday..Sunday (ordinal 1 is the first Monday)
WeekNumber(d, week_starts_monday) ==
    IF week_starts_monday THEN (d - 1) \div 7 ELSE d \div 7

\* The first day of the week of the call is a date: on or after 0001-01-01
WeekStartIsDate ==
    IF call.week_starts_monday
    THEN WeekNumber(call.d, TRUE) * 7 + 1 >= MinOrdinal
    ELSE WeekNumber(call.d, FALSE) * 7 >= MinOrdinal

\* The result is the first day of the week of the call's date
FirstDayOfWeek ==
    LET flag == call.week_starts_monday
        r == ret.week
    IN  /\ ~r.raised
        /\ call.d - r.date \in 0..6
        /\ weekday(r.date) = (IF flag THEN 0 ELSE 6)
        /\ \A d2 \in MinOrdinal..MaxOrdinal :
              WeekNumber(d2, flag) = WeekNumber(call.d, flag)
                  => start_of_week(d2, flag) = r
        /\ start_of_week(r.date, flag) = r

\* C11 as stated: for both conventions start_of_week maps every date to the
\* first day of its week: 0 to 6 days before it, a Sunday (default) or a Monday
\* (flag set), the same for any two dates of one week, and a fixed point.
C11_Original == StartOfWeekReturned => FirstDayOfWeek

\* C11 as amended: the same for every date whose week's first day is a date
\* (every date under the Monday convention, every date from 0001-01-07 on under
\* the Sunday convention); for 0001-01-01 .. 0001-01-06 under the Sunday
\* convention start_of_week raises OverflowError.
C11_Amended ==
    StartOfWeekReturned =>
        IF WeekStartIsDate THEN FirstDayOfWeek ELSE ret.week.raised

\* C11, its case: a Wednesday under the Sunday convention gives the Sunday three
\* days before it, which the other dates of that week give as well.
C11_Witness ==
    /\ StartOfWeekReturned
    /\ ~call.week_starts_monday
    /\ weekday(call.d) = 2
    /\ ~ret.week.raised
    /\ ret.week.date = call.d - 3
    /\ start_of_week(call.d + 3, FALSE) = ret.week

----------------------------------------------------------------------------
(* The personal-history heuristic: suggest_best_time_from_history on its own *)

\* The number of records in the stores the heuristic is called on
MaxHistory == 3

\* A timed event on day 0 starting at minute m, with one tag
Tagged(m, tag) ==
    Rec(1, "event", FALSE, IsoDateTime(m), IsoDateTime(m + 30), <<tag>>,
        "Manual (pick times)", FALSE)

HistoryPool ==
    { Tagged(600, "Fitness"), Tagged(601, "Fitness"), Tagged(660, "Fitness"),
      Tagged(720, "Fitness"), Tagged(1409, "Fitness"), Tagged(480, "Health"),
      Rec(1, "event", FALSE, IsoDateTime(1000), IsoDateTime(1060),
          <<"Exercise (Time-of-Day Effects)", "Fitness">>, "Research-Based", FALSE),
      Rec(1, "task", TRUE, iso_date(0), Absent, <<"Fitness">>, "", FALSE),
      Rec(1, "event", TRUE, iso_date(0), Absent, <<"Fitness">>, "", FALSE) }

HistoryStores ==
    UNION {[1..n -> HistoryPool] : n \in 0..MaxHistory}

HistoryTags == {"Fitness", "Health", "Travel"}

InitHistory ==
    /\ AppIdle
    /\ ret = NoRet
    /\ \E evs \in HistoryStores, tag \in HistoryTags :
          call = [fn |-> "suggest_best_time_from_history", events |-> evs,
                  tag |-> tag]

CallSuggestBestTime ==
    /\ call.fn = "suggest_best_time_from_history"
    /\ ret = NoRet
    /\ ret' = [path |-> "returned",
               time |-> suggest_best_time_from_history(call.events, call.tag)]
    /\ UNCHANGED call
    /\ AppUnchanged

NextHistory == CallSuggestBestTime

SpecHistory == InitHistory /\ [][NextHistory]_vars

BestTimeReturned == call.fn = "suggest_best_time_from_history" /\ ret # NoRet

\* The indices of the call's records of kind event whose tags contain the tag
\* and whose start has a time of day
MatchingHistory ==
    {i \in 1..Len(call.events) :
        /\ call.events[i].kind = "event"
        /\ \E k \in 1..Len(call.events[i].tags) : call.events[i].tags[k] = call.tag
        /\ call.events[i].start.fmt = "datetime"}

RECURSIVE OffsetSum(_)
OffsetSum(idx) ==
    IF idx = {} THEN 0
    ELSE LET i == CHOOSE x \in idx : TRUE
         IN  call.events[i].start.hh * 60 + call.events[i].start.mm
                 + OffsetSum(idx \ {i})

\* The fixed per-tag default time of the call's tag
DefaultOffset ==
    CASE call.tag = "Fitness" -> 16 * 60 + 30
      [] call.tag = "Health" -> 20 * 60
      [] call.tag = "Travel" -> 10 * 60

\* C12 as stated: the result is the mean of the start offsets of the events of
\* kind event whose tags contain the tag, rounded to the nearest whole minute
\* (at most half a minute from the mean) and within 0..1439; offsets 600, 660,
\* 720 give 660; with no such event it is the tag's default time.
C12_Original ==
    BestTimeReturned =>
        LET idx == MatchingHistory
            n == Cardinality(idx)
            total == OffsetSum(idx)
        IN  /\ ret.time \in 0..1439
            /\ n = 0 => ret.time = DefaultOffset
            /\ n > 0 => /\ 2 * (ret.time * n - total) <= n
                        /\ 2 * (total - ret.time * n) <= n
            /\ (n = 3 /\ total = 600 + 660 + 720) => ret.time = 660

----------------------------------------------------------------------------
(* Save and Delete of the edit form, with clicks on any id: claim C13 *)

\* The number of records one such run creates
MaxEditCreates == 2

NextEdit ==
    \/ SessionStart(1)
    \/ CreateEventManual(1, MaxEditCreates)
    \/ CreateTask(1, MaxEditCreates)
    \/ EventClick(1)
    \/ StaleEventClick(1)
    \/ EditSave(1)
    \/ EditDelete(1)

SpecEdit == Init /\ [][NextEdit]_vars

\* The selected id of session s is the id of no record of its store
StaleSelection(s) ==
    /\ selected_event_id[s] # None
    /\ selected_event_id[s] \notin IdsOf(events[s])

\* The step keeps the length of the store and every id, and changes at most one
\* record, whose id is the selected id
SaveFrame(s) ==
    /\ Len(events'[s]) = Len(events[s])
    /\ \A i \in 1..Len(events[s]) :
          /\ events'[s][i].id = events[s][i].id
          /\ events'[s][i] # events[s][i] => events[s][i].id = selected_event_id[s]
    /\ Cardinality({i \in 1..Len(events[s]) : events'[s][i] # events[s][i]}) <= 1

\* The step removes the records with the selected id and no other, and leaves
\* the others as they were, in their order
DeleteFrame(s) ==
    LET Others(ev) == ev.id # selected_event_id[s]
    IN  events'[s] = SelectSeq(events[s], Others)

\* C13: a Save changes at most the record with the selected id and changes no
\* id; a Delete removes only records with the selected id; with a selected id no
\* record has, neither Save nor Delete changes the store or the file.
C13_Frame ==
    [][\A s \in Sessions :
          /\ EditSave(s) => SaveFrame(s)
          /\ EditDelete(s) => DeleteFrame(s)
          /\ (StaleSelection(s) /\ (EditSave(s) \/ EditDelete(s)))
                => (events' = events /\ file' = file)]_vars

\* C13, its case: a Save has changed one record (its first tag is the tag of the
\* edit form) and left the other record of the store as it was created.
C13_Witness ==
    /\ last.op \in {"edit_save", "edit_save_timed"}
    /\ Len(events[1]) = 2
    /\ \E i, j \in 1..2 :
          /\ events[1][i].id = last.id
          /\ events[1][i].tags[1] = "Health"
          /\ events[1][j].id # last.id
          /\ events[1][j].tags[1] = "Fitness"

----------------------------------------------------------------------------
(* Navigation: Today, previous, next, view buttons and calendar clicks.      *)
(* A date string holds a day number; day 0 is 2024-01-31.                    *)

\* parse_iso_date of a date string
parse_iso_date(s) == s.date

\* dt.date.toordinal(): the days from 0001-01-01, which is 1
Ordinal(date) ==
    LET y == date.year - 1
        before == [m \in 1..12 |->
                     IF m = 1 THEN 0
                     ELSE 31 + (IF m > 2 THEN DaysInMonth(date.year, 2) ELSE 0)
                          + (IF m > 3 THEN 31 ELSE 0) + (IF m > 4 THEN 30 ELSE 0)
                          + (IF m > 5 THEN 31 ELSE 0) + (IF m > 6 THEN 30 ELSE 0)
                          + (IF m > 7 THEN 31 ELSE 0) + (IF m > 8 THEN 31 ELSE 0)
                          + (IF m > 9 THEN 30 ELSE 0) + (IF m > 10 THEN 31 ELSE 0)
                          + (IF m > 11 THEN 30 ELSE 0)]
    IN  365 * y + y \div 4 - y \div 100 + y \div 400 + before[date.month] + date.day

\* The date of day 0
Epoch == Date(2024, 1, 31)

\* The years navigation stays in
NavYears == 2022..2026

\* The date of a day number
ToDate(day) ==
    LET n == Ordinal(Epoch) + day
        y == CHOOSE yy \in NavYears :
                 Ordinal(Date(yy, 1, 1)) <= n /\ n < Ordinal(Date(yy + 1, 1, 1))
        m == CHOOSE mm \in 1..12 :
                 /\ Ordinal(Date(y, mm, 1)) <= n
                 /\ n < Ordinal(Date(y, mm, 1)) + DaysInMonth(y, mm)
    IN  Date(y, m, n - Ordinal(Date(y, m, 1)) + 1)

\* The day number of a date
DayNumber(date) == Ordinal(date) - Ordinal(Epoch)

shift_anchor(anchor, nav_view, direction) ==
    IF nav_view = "month"
    THEN DayNumber(add_months(ToDate(anchor), direction))
    ELSE IF nav_view = "week"
    THEN anchor + 7 * direction
    ELSE anchor + direction

\* The day numbers navigation stays within
MaxNav == 45

\* What a navigation handler leaves alone
NavFrame ==
    /\ UNCHANGED <<events, started, file, nextId, persisted, page, call, ret>>
    /\ FeedbackUnchanged

\* The Today button
TodayButton(s) ==
    /\ started[s]
    /\ page[s] = "Calendar"
    /\ \E today \in ClockDays :
          /\ selected_date' = [selected_date EXCEPT ![s] = iso_date(today)]
          /\ anchor_date' = [anchor_date EXCEPT ![s] = iso_date(today)]
    /\ selected_event_id' = [selected_event_id EXCEPT ![s] = None]
    /\ last' = Op("today", s, 0, 0, 0)
    /\ UNCHANGED view
    /\ NavFrame

\* ShiftButton that leaves selected_date as it was
ShiftButtonAnchorOnly(s, direction) ==
    /\ started[s]
    /\ page[s] = "Calendar"
    /\ LET a2 == shift_anchor(parse_iso_date(anchor_date[s]), view[s], direction)
       IN  /\ a2 \in (-MaxNav)..MaxNav
           /\ anchor_date' = [anchor_date EXCEPT ![s] = iso_date(a2)]
           /\ UNCHANGED selected_date
    /\ selected_event_id' = [selected_event_id EXCEPT ![s] = None]
    /\ last' = Op(IF direction < 0 THEN "prev" ELSE "next", s, 0, 0, 0)
    /\ UNCHANGED view
    /\ NavFrame

\* The previous (direction -1) and next (direction +1) buttons
ShiftButton(s, direction) ==
    /\ started[s]
    /\ page[s] = "Calendar"
    /\ LET a == parse_iso_date(anchor_date[s])
           a2 == shift_anchor(a, view[s], direction)
       IN  /\ a2 \in (-MaxNav)..MaxNav
           /\ anchor_date' = [anchor_date EXCEPT ![s] = iso_date(a2)]
           /\ selected_date' = [selected_date EXCEPT ![s] = iso_date(a2)]
    /\ selected_event_id' = [selected_event_id EXCEPT ![s] = None]
    /\ last' = Op(IF direction < 0 THEN "prev" ELSE "next", s, 0, 0, 0)
    /\ UNCHANGED view
    /\ NavFrame

\* The Month, Week and Day buttons: nothing happens when the view stays
ViewButton(s) ==
    /\ started[s]
    /\ page[s] = "Calendar"
    /\ \E new_view \in {"month", "week", "day"} :
          /\ new_view # view[s]
          /\ view' = [view EXCEPT ![s] = new_view]
    /\ selected_event_id' = [selected_event_id EXCEPT ![s] = None]
    /\ last' = Op("view", s, 0, 0, 0)
    /\ UNCHANGED <<selected_date, anchor_date>>
    /\ NavFrame

\* A click on a date of the calendar
DateClick(s) ==
    /\ started[s]
    /\ page[s] = "Calendar"
    /\ \E day \in Days :
          /\ selected_date' = [selected_date EXCEPT ![s] = iso_date(day)]
          /\ anchor_date' = [anchor_date EXCEPT ![s] = iso_date(day)]
    /\ selected_event_id' = [selected_event_id EXCEPT ![s] = None]
    /\ last' = Op("date_click", s, 0, 0, 0)
    /\ UNCHANGED view
    /\ NavFrame

\* The number of records a run of navigation creates
MaxNavCreates == 1

NextNav ==
    \/ SessionStart(1)
    \/ CreateEventManual(1, MaxNavCreates)
    \/ TodayButton(1)
    \/ ShiftButton(1, -1)
    \/ ShiftButton(1, 1)
    \/ ViewButton(1)
    \/ DateClick(1)
    \/ EventClick(1)

SpecNav == Init /\ [][NextNav]_vars

\* The operations of navigation that are not the event click
ClearingOps == {"today", "prev", "next", "view", "date_click"}

\* C19: in every state reached through the navigation actions anchor_date
\* equals selected_date, and after each of them except the event click
\* selected_event_id is None.
C19_AnchorIsSelected ==
    \A s \in Sessions :
        /\ anchor_date[s] = selected_date[s]
        /\ (last.op \in ClearingOps /\ last.session = s)
              => selected_event_id[s] = None

\* C19, its case: the next button in the month view has moved both dates off
\* the date of the store's event, from 2024-01-31 to the last day of February,
\* and cleared the selection.
C19_Witness ==
    /\ last.op = "next"
    /\ view[1] = "month"
    /\ events[1] # <<>>
    /\ selected_event_id[1] = None
    /\ anchor_date[1] = selected_date[1]
    /\ ToDate(parse_iso_date(anchor_date[1])) = Date(2024, 2, 29)

----------------------------------------------------------------------------
(* The Feedback page *)

\* f"{event_id}::{day.isoformat()}"
_occurrence_key(event_id, day) == <<event_id, iso_date(day)>>

_event_occurs_on_day(ev, day) ==
    /\ ev.kind = "event"
    /\ _parse_iso_dt(ev.start) # None
    /\ _parse_iso_dt(ev.end) # None
    /\ DateOf(_parse_iso_dt(ev.start)) = day

\* fb.get("done") is True for the occurrence key
FeedbackIsDone(fb, key) == key \in DOMAIN fb /\ fb[key].done = TRUE

\* FeedbackItemsOn that skips no item with feedback
ItemsKeepDone(s, day) ==
    LET Occurs(ev) == _event_occurs_on_day(ev, day)
    IN  SelectSeq(events[s], Occurs)

\* items: the events of the day that have no feedback marked done
FeedbackItemsOn(s, day) ==
    LET Needs(ev) ==
            /\ _event_occurs_on_day(ev, day)
            /\ ~FeedbackIsDone(feedback[s], _occurrence_key(ev.id, day))
    IN  SelectSeq(events[s], Needs)

FeedbackItems(s) == FeedbackItemsOn(s, parse_iso_date(selected_date[s]))

\* _event_label: the title (left blank in every form here) and the time range
_event_label(ev) == <<"(No title)", ev.start.hh, ev.start.mm, ev.end.hh, ev.end.mm>>

\* items[labels.index(pick)]: the first item that carries the picked label
PickedIndex(items, i) ==
    CHOOSE j \in 1..Len(items) :
        /\ _event_label(items[j]) = _event_label(items[i])
        /\ \A k \in 1..(j - 1) : _event_label(items[k]) # _event_label(items[i])

\* The scores of the emoji buttons pressed
RatingInputs == {4}

\* The Page radio of the sidebar
PageSwitch(s) ==
    /\ started[s]
    /\ page' = [page EXCEPT ![s] = IF @ = "Calendar" THEN "Feedback" ELSE "Calendar"]
    /\ last' = Op("page", s, 0, 0, 0)
    /\ UNCHANGED <<events, started, file, selected_event_id, nextId, persisted,
                   view, selected_date, anchor_date, call, ret>>
    /\ FeedbackUnchanged

\* An emoji button of the Feedback page
FeedbackEmoji(s) ==
    /\ started[s]
    /\ page[s] = "Feedback"
    /\ FeedbackItems(s) # <<>>
    /\ \E score \in RatingInputs :
          /\ feedback_rating' = [feedback_rating EXCEPT ![s] = score]
          /\ last' = Op("feedback_emoji", s, score, 0, 0)
    /\ UNCHANGED <<events, started, file, selected_event_id, nextId, persisted,
                   feedback, feedback_file, call, ret>>
    /\ NavUnchanged

\* The Done button of the Feedback page, for the item picked
FeedbackDone(s) ==
    /\ started[s]
    /\ page[s] = "Feedback"
    /\ FeedbackItems(s) # <<>>
    /\ LET day == parse_iso_date(selected_date[s])
           items == FeedbackItems(s)
       IN  \E i \in 1..Len(items) :
           LET selected_ev == items[PickedIndex(items, i)]
               event_id == selected_ev.id
               occ_key == _occurrence_key(event_id, day)
               record == [event_id |-> event_id, date |-> iso_date(day),
                          rating |-> feedback_rating[s], done |-> TRUE]
               stored == [k \in DOMAIN feedback[s] \cup {occ_key} |->
                             IF k = occ_key THEN record ELSE feedback[s][k]]
           IN  IF feedback_rating[s] = None
               THEN /\ last' = Op("feedback_done_unrated", s, event_id, 0, 0)
                    /\ FeedbackUnchanged
               ELSE /\ feedback' = [feedback EXCEPT ![s] = stored]
                    /\ feedback_file' = _save_feedback(stored)
                    /\ feedback_rating' = [feedback_rating EXCEPT ![s] = None]
                    /\ last' = Op("feedback_done", s, event_id, 0, 0)
    /\ UNCHANGED <<events, started, file, selected_event_id, nextId, persisted,
                   call, ret>>
    /\ NavUnchanged

\* The number of events one run with feedback creates
MaxFeedbackCreates == 2

NextFeedback ==
    \/ SessionStart(1)
    \/ CreateEventManual(1, MaxFeedbackCreates)
    \/ DateClick(1)
    \/ EventClick(1)
    \/ EditDelete(1)
    \/ PageSwitch(1)
    \/ FeedbackEmoji(1)
    \/ FeedbackDone(1)

SpecFeedback == Init /\ [][NextFeedback]_vars

\* The step writes one feedback record, marked done and carrying the selected
\* rating, for an item that needed feedback on the selected date, and saves
RatedDoneStep(s) ==
    /\ page[s] = "Feedback"
    /\ feedback_rating[s] # None
    /\ \E i \in 1..Len(FeedbackItems(s)) :
          LET key == <<FeedbackItems(s)[i].id, selected_date[s]>>
          IN  /\ DOMAIN feedback'[s] = DOMAIN feedback[s] \cup {key}
              /\ feedback'[s][key].done = TRUE
              /\ feedback'[s][key].rating = feedback_rating[s]
              /\ \A k \in DOMAIN feedback[s] \ {key} : feedback'[s][k] = feedback[s][k]
    /\ feedback_file' = [exists |-> TRUE, data |-> feedback'[s]]

\* The event of a feedback record marked done is in no list of items for the
\* record's date
DoneIsExcluded(s) ==
    \A key \in DOMAIN feedback[s] :
        feedback[s][key].done = TRUE =>
            \A i \in 1..Len(FeedbackItemsOn(s, key[2].date)) :
                FeedbackItemsOn(s, key[2].date)[i].id # key[1]

\* C14: the feedback store changes only by a Done press with a rating selected,
\* which writes the record of one occurrence key (a Done press without a rating
\* changes neither the store nor the file); a record marked done stays, marked
\* done, in every later state, and its event is in no later list of items for
\* that date.
C14_FeedbackLifecycle ==
    /\ [][\A s \in Sessions :
             /\ (started[s] /\ feedback'[s] # feedback[s]) => RatedDoneStep(s)
             /\ feedback_file' # feedback_file => \E t \in Sessions : RatedDoneStep(t)
             /\ (FeedbackDone(s) /\ feedback_rating[s] = None)
                   => UNCHANGED <<feedback, feedback_file>>
             /\ \A key \in DOMAIN feedback[s] :
                   (started[s] /\ feedback[s][key].done = TRUE)
                       => (key \in DOMAIN feedback'[s] /\ feedback'[s][key].done = TRUE)
        ]_vars
    /\ [](\A s \in Sessions : DoneIsExcluded(s))

\* C14, its case: an event on the store's selected date has a feedback record
\* marked done, the list of items for that date holds another event and not
\* this one, and a Done press without a rating came after the record.
C14_Witness ==
    /\ page[1] = "Feedback"
    /\ last.op = "feedback_done_unrated"
    /\ \E i \in 1..Len(events[1]) :
          LET ev == events[1][i]
              day == parse_iso_date(selected_date[1])
          IN  /\ _event_occurs_on_day(ev, day)
              /\ FeedbackIsDone(feedback[1], _occurrence_key(ev.id, day))
              /\ FeedbackItems(1) # <<>>
              /\ \A j \in 1..Len(FeedbackItems(1)) : FeedbackItems(1)[j].id # ev.id

====
